---- MODULE Spec2Model ----
(***************************************************************************)
(* Model of scholar_to_bibtex.py: the citation renderer                    *)
(* (publication_to_bibtex, sanitize_bibtex_key), the two acquisition loops *)
(* (search_scholar_serpapi, search_scholar_direct) and the orchestration   *)
(* (generate_bibtex_file).                                                 *)
(*                                                                         *)
(* A Python str is a sequence of one-character strings.  The literal       *)
(* fragments of the f-strings of the renderer ("  title = {", "},", ...)   *)
(* are kept as single multi-character pieces, so a rendered text is the    *)
(* concatenation of its pieces.                                            *)
(***************************************************************************)
EXTENDS Integers, Sequences, FiniteSets, TLC

VARIABLES
    pc,               \* position in generate_bibtex_file and the strategy it runs
    api_key,          \* TRUE iff the api_key argument is truthy
    max_results,      \* the max_results argument
    start,            \* the page offset of the running strategy
    params_start,     \* the offset carried by the request being sent
    all_publications, \* the records collected by the running strategy
    event,            \* the outcome of the last request
    publications,     \* the list the strategy returned
    i,                \* enumerate() position of the conversion loop
    bibtex_entries,   \* the entries converted so far
    out_file,         \* the content of output_file (NoFile when it does not exist)
    file0,            \* the content of output_file before the run
    writes,           \* number of times output_file was opened for writing
    r_pc,             \* renderer harness: "ready", "rendered" or "raised"
    r_pub,            \* renderer harness: the record given to publication_to_bibtex
    r_index,          \* renderer harness: the index given to publication_to_bibtex
    r_out             \* renderer harness: the text returned

vars == <<pc, api_key, max_results, start, params_start, all_publications, event,
          publications, i, bibtex_entries, out_file, file0, writes,
          r_pc, r_pub, r_index, r_out>>

pipeVars == <<pc, api_key, max_results, start, params_start, all_publications, event,
              publications, i, bibtex_entries, out_file, file0, writes>>

renderVars == <<r_pc, r_pub, r_index, r_out>>

-----------------------------------------------------------------------------
(* Bounds of the model *)

MaxIndex == 10          \* the renderer harness is given index 0 or MaxIndex
MaxVenueFrags == 2      \* venue inputs are made of at most this many fragments
MaxPageLen == 2         \* most results on one upstream page
MaxSmallResults == 3    \* max_results is in 1..MaxSmallResults or one more than a page of the API
MaxDirectPages == 2     \* the scraped source holds data at this many offsets
MaxTotalPages == 2      \* the API reports a total_results of up to this many pages, or one more result

-----------------------------------------------------------------------------
(* Python values and str methods *)

\* A non-text value that is falsy (None) and one that is truthy (a JSON number).
NoneVal == <<"<None>">>
NumVal == <<"<7>">>

IsStr(v) == v # NoneVal /\ v # NumVal

Truthy(v) == v # <<>> /\ v # NoneVal

UpperChars == <<"A","B","C","D","E","F","G","H","I","J","K","L","M",
                "N","O","P","Q","R","S","T","U","V","W","X","Y","Z">>

LowerChars == <<"a","b","c","d","e","f","g","h","i","j","k","l","m",
                "n","o","p","q","r","s","t","u","v","w","x","y","z">>

DigitChars == <<"0","1","2","3","4","5","6","7","8","9">>

Range(s) == {s[k] : k \in 1..Len(s)}

\* \w of the re module, over the ASCII alphabet of the model
IsWordChar(c) == c \in Range(UpperChars) \cup Range(LowerChars) \cup Range(DigitChars) \cup {"_"}

\* \s of the re module
IsSpace(c) == c \in {" ", "\t", "\n"}

LowerChar(c) ==
    IF c \in Range(UpperChars)
    THEN LowerChars[CHOOSE k \in 1..Len(UpperChars) : UpperChars[k] = c]
    ELSE c

\* str.lower()
Lower(s) == [k \in 1..Len(s) |-> LowerChar(s[k])]

\* `sub in s`
Contains(s, sub) ==
    \E k \in 1..(Len(s) - Len(sub) + 1) : SubSeq(s, k, k + Len(sub) - 1) = sub

IsBrace(c) == c \in {"{", "}"}

NotBrace(c) == ~IsBrace(c)

\* s.replace('{', '').replace('}', '')
StripBraces(s) == SelectSeq(s, NotBrace)

\* length of the run of non-space characters s starts with (s[1] is no space)
WordLen(s) ==
    CHOOSE n \in 1..Len(s) :
        /\ \A k \in 1..n : ~IsSpace(s[k])
        /\ n = Len(s) \/ IsSpace(s[n + 1])

RECURSIVE Split(_)
\* str.split() with no argument
Split(s) ==
    IF s = <<>> THEN <<>>
    ELSE IF IsSpace(Head(s)) THEN Split(Tail(s))
    ELSE LET n == WordLen(s) IN <<SubSeq(s, 1, n)>> \o Split(SubSeq(s, n + 1, Len(s)))

\* s.split(',')[0]
BeforeComma(s) ==
    IF \E k \in 1..Len(s) : s[k] = ","
    THEN SubSeq(s, 1, (CHOOSE k \in 1..Len(s) : s[k] = "," /\ \A j \in 1..(k - 1) : s[j] # ",") - 1)
    ELSE s

RECURSIVE IntToStr(_)
\* str(n) of a non-negative int
IntToStr(n) ==
    IF n < 10 THEN <<DigitChars[n + 1]>>
    ELSE IntToStr(n \div 10) \o <<DigitChars[(n % 10) + 1]>>

RECURSIVE Join(_, _)
\* sep.join(parts), sep one piece
Join(sep, parts) ==
    IF parts = <<>> THEN <<>>
    ELSE IF Len(parts) = 1 THEN parts[1]
    ELSE parts[1] \o <<sep>> \o Join(sep, Tail(parts))

-----------------------------------------------------------------------------
(* sanitize_bibtex_key and publication_to_bibtex *)

WordOrSpace(c) == IsWordChar(c) \/ IsSpace(c)

sanitize_bibtex_key(title, year, author_last) ==
    LET words == Split(SelectSeq(title, WordOrSpace))
        first_word == IF words # <<>> THEN Lower(words[1])
                      ELSE <<"u","n","k","n","o","w","n">>
        author_clean == Lower(SelectSeq(author_last, IsWordChar))
    IN  author_clean \o year \o first_word

\* dict.get(k, d)
Get(pub, k, d) == IF k \in pub.keys THEN pub[k] ELSE d

ConferenceWords == { <<"c","o","n","f","e","r","e","n","c","e">>,
                     <<"p","r","o","c","e","e","d","i","n","g","s">>,
                     <<"s","y","m","p","o","s","i","u","m">>,
                     <<"w","o","r","k","s","h","o","p">> }

JournalWords == { <<"j","o","u","r","n","a","l">>,
                  <<"t","r","a","n","s","a","c","t","i","o","n","s">>,
                  <<"l","e","t","t","e","r","s">> }

\* EntryType with a fault seeded: the journal keywords are tested first.
EntryTypeJournalFirst(venue) ==
    IF Truthy(venue)
    THEN LET venue_lower == Lower(venue) IN
         IF \E x \in JournalWords : Contains(venue_lower, x) THEN "article"
         ELSE IF \E x \in ConferenceWords : Contains(venue_lower, x) THEN "inproceedings"
         ELSE "article"
    ELSE "misc"

EntryType(venue) ==
    IF Truthy(venue)
    THEN LET venue_lower == Lower(venue) IN
         IF \E x \in ConferenceWords : Contains(venue_lower, x) THEN "inproceedings"
         ELSE IF \E x \in JournalWords : Contains(venue_lower, x) THEN "article"
         ELSE "article"
    ELSE "misc"

PubTitle(pub) == Get(pub, "title", <<"U","n","k","n","o","w","n"," ","T","i","t","l","e">>)

PubAuthors(pub) == Get(pub, "authors", <<"U","n","k","n","o","w","n"," ","A","u","t","h","o","r">>)

PubYear(pub) == Get(pub, "year", <<"n",".","d",".">>)

PubVenue(pub) == Get(pub, "venue", Get(pub, "publication", <<>>))

PubSnippet(pub) == Get(pub, "snippet", <<>>)

PubCitations(pub) == Get(pub, "citations", 0)

PubLink(pub) == Get(pub, "link", <<>>)

\* publication_to_bibtex raises on a value that has no .replace / .lower
Raises(pub) ==
    \/ ~IsStr(PubTitle(pub))
    \/ ~IsStr(PubAuthors(pub))
    \/ Truthy(PubVenue(pub)) /\ ~IsStr(PubVenue(pub))
    \/ Truthy(PubSnippet(pub)) /\ ~IsStr(PubSnippet(pub))

\* BibtexKey with a fault seeded: the index suffix is left out.
BibtexKeyNoIndex(pub, index) ==
    LET title == StripBraces(PubTitle(pub))
        authors == StripBraces(PubAuthors(pub))
        author_parts == IF authors # <<>> THEN Split(BeforeComma(authors))
                        ELSE << <<"u","n","k","n","o","w","n">> >>
        author_last == IF author_parts # <<>> THEN author_parts[Len(author_parts)]
                       ELSE <<"u","n","k","n","o","w","n">>
    IN  sanitize_bibtex_key(title, PubYear(pub), author_last)

BibtexKey(pub, index) ==
    LET title == StripBraces(PubTitle(pub))
        authors == StripBraces(PubAuthors(pub))
        author_parts == IF authors # <<>> THEN Split(BeforeComma(authors))
                        ELSE << <<"u","n","k","n","o","w","n">> >>
        author_last == IF author_parts # <<>> THEN author_parts[Len(author_parts)]
                       ELSE <<"u","n","k","n","o","w","n">>
    IN  sanitize_bibtex_key(title, PubYear(pub), author_last) \o <<"_">> \o IntToStr(index)

\* EntryLines with a fault seeded: the url line is appended before the note line.
EntryLinesUrlFirst(pub, index) ==
    LET venue == PubVenue(pub)
        snippet == PubSnippet(pub)
        citations == PubCitations(pub)
        link == PubLink(pub)
        entry_type == EntryType(venue)
    IN  << <<"@", entry_type, "{">> \o BibtexKey(pub, index) \o <<",">> >>
        \o << <<"  title = {">> \o StripBraces(PubTitle(pub)) \o <<"},">> >>
        \o << <<"  author = {">> \o StripBraces(PubAuthors(pub)) \o <<"},">> >>
        \o << <<"  year = {">> \o PubYear(pub) \o <<"},">> >>
        \o (IF Truthy(venue)
            THEN IF entry_type = "inproceedings"
                 THEN << <<"  booktitle = {">> \o venue \o <<"},">> >>
                 ELSE << <<"  journal = {">> \o venue \o <<"},">> >>
            ELSE <<>>)
        \o (IF Truthy(snippet)
            THEN << <<"  abstract = {">> \o StripBraces(snippet) \o <<"},">> >>
            ELSE <<>>)
        \o (IF Truthy(link)
            THEN << <<"  url = {">> \o link \o <<"},">> >>
            ELSE <<>>)
        \o (IF citations # 0
            THEN << <<"  note = {", "Cited by ">> \o IntToStr(citations) \o <<"},">> >>
            ELSE <<>>)
        \o << <<"}">> >>

\* the list `lines` of publication_to_bibtex
EntryLines(pub, index) ==
    LET venue == PubVenue(pub)
        snippet == PubSnippet(pub)
        citations == PubCitations(pub)
        link == PubLink(pub)
        entry_type == EntryType(venue)
    IN  << <<"@", entry_type, "{">> \o BibtexKey(pub, index) \o <<",">> >>
        \o << <<"  title = {">> \o StripBraces(PubTitle(pub)) \o <<"},">> >>
        \o << <<"  author = {">> \o StripBraces(PubAuthors(pub)) \o <<"},">> >>
        \o << <<"  year = {">> \o PubYear(pub) \o <<"},">> >>
        \o (IF Truthy(venue)
            THEN IF entry_type = "inproceedings"
                 THEN << <<"  booktitle = {">> \o venue \o <<"},">> >>
                 ELSE << <<"  journal = {">> \o venue \o <<"},">> >>
            ELSE <<>>)
        \o (IF Truthy(snippet)
            THEN << <<"  abstract = {">> \o StripBraces(snippet) \o <<"},">> >>
            ELSE <<>>)
        \o (IF citations # 0
            THEN << <<"  note = {", "Cited by ">> \o IntToStr(citations) \o <<"},">> >>
            ELSE <<>>)
        \o (IF Truthy(link)
            THEN << <<"  url = {">> \o link \o <<"},">> >>
            ELSE <<>>)
        \o << <<"}">> >>

\* the text publication_to_bibtex returns when it does not raise
publication_to_bibtex(pub, index) == Join("\n", EntryLines(pub, index))

-----------------------------------------------------------------------------
(* Renderer harness: publication_to_bibtex applied to one record *)

AbsentVal == <<"<absent>">>

\* a dict holding the keys whose value is given
MkPub(t, a, y, v, p, s, c, l) ==
    [keys |-> {k \in {"title"} : t # AbsentVal} \cup {k \in {"authors"} : a # AbsentVal}
              \cup {k \in {"year"} : y # AbsentVal} \cup {k \in {"venue"} : v # AbsentVal}
              \cup {k \in {"publication"} : p # AbsentVal}
              \cup {k \in {"snippet"} : s # AbsentVal}
              \cup {k \in {"citations"} : c >= 0} \cup {k \in {"link"} : l # AbsentVal},
     title |-> t, authors |-> a, year |-> y, venue |-> v, publication |-> p,
     snippet |-> s, citations |-> c, link |-> l]

TitleInputs == { AbsentVal, NoneVal, <<"D","e","e","p"," ","{","L","}">>, <<"{","}">> }

AuthorsInputs == { AbsentVal, <<>>, <<"J"," ","S","m","i","t","h",","," ","K"," ","L","e","e">>,
                   <<"{","X","}"," ","L","e","e">> }

YearInputs == { AbsentVal, <<"2","0","2","0">> }

SnippetInputs == { <<>>, <<"s","{","x","}">>, NumVal }

CitationsInputs == { -1, 0, 15 }

LinkInputs == { <<>>, <<"u","{","r","}","l">> }

VenueFrags == { <<"C","o","n","f","e","r","e","n","c","e">>,
                <<"P","r","o","c","e","e","d","i","n","g","s">>,
                <<"s","y","m","p","o","s","i","u","m">>,
                <<"W","O","R","K","S","H","O","P">>,
                <<"J","o","u","r","n","a","l">>,
                <<"t","r","a","n","s","a","c","t","i","o","n","s">>,
                <<"L","e","t","t","e","r","s">>,
                <<"N","a","t","u","r","e">>,
                <<"w","o","r","k"," ","s","h","o","p">>,
                <<" ">>, <<"{">> }

RECURSIVE FragVenues(_)
\* the concatenations of at most n fragments
FragVenues(n) ==
    IF n = 0 THEN { <<>> }
    ELSE LET shorter == FragVenues(n - 1) IN
         shorter \cup { v \o f : v \in shorter, f \in VenueFrags }

SmallVenueInputs == { AbsentVal, <<>>, NoneVal, NumVal,
                      <<"N","a","{","t","}","u","r","e">>,
                      <<"W","O","R","K","S","H","O","P">> }

PublicationInputs == { AbsentVal, <<"S","y","m","p","o","s","i","u","m">> }

\* Every field varied over a few values, and the venue varied over every
\* concatenation of fragments in an otherwise fixed record.
RenderInputs ==
    { MkPub(t, a, y, v, AbsentVal, s, c, l) :
        t \in TitleInputs, a \in AuthorsInputs, y \in YearInputs, v \in SmallVenueInputs,
        s \in SnippetInputs, c \in CitationsInputs, l \in LinkInputs }
    \cup { MkPub(<<"D","e","e","p">>, <<"J"," ","S","m","i","t","h">>, <<"2","0","2","0">>,
                 v, p, <<>>, 0, <<>>) :
             v \in FragVenues(MaxVenueFrags) \cup {AbsentVal}, p \in PublicationInputs }

RenderIdle ==
    /\ r_pc = "idle"
    /\ r_pub = MkPub(AbsentVal, AbsentVal, AbsentVal, AbsentVal, AbsentVal, AbsentVal, -1, AbsentVal)
    /\ r_index = 0
    /\ r_out = <<>>

Render ==
    /\ r_pc = "ready"
    /\ ~Raises(r_pub)
    /\ r_out' = publication_to_bibtex(r_pub, r_index)
    /\ r_pc' = "rendered"
    /\ UNCHANGED <<r_pub, r_index>>
    /\ UNCHANGED pipeVars

RenderRaise ==
    /\ r_pc = "ready"
    /\ Raises(r_pub)
    /\ r_pc' = "raised"
    /\ UNCHANGED <<r_pub, r_index, r_out>>
    /\ UNCHANGED pipeVars

PipeIdle ==
    /\ pc = "idle"
    /\ api_key = FALSE
    /\ max_results = 1
    /\ start = 0
    /\ params_start = 0
    /\ all_publications = <<>>
    /\ event = "none"
    /\ publications = <<>>
    /\ i = 0
    /\ bibtex_entries = <<>>
    /\ out_file = <<"<no file>">>
    /\ file0 = <<"<no file>">>
    /\ writes = 0

RenderInit ==
    /\ PipeIdle
    /\ r_pc = "ready"
    /\ r_pub \in RenderInputs
    /\ r_index \in {0, MaxIndex}
    /\ r_out = <<>>

RenderNext == Render \/ RenderRaise

RenderSpec == RenderInit /\ [][RenderNext]_vars

-----------------------------------------------------------------------------
(* The upstream sources *)

SerpStep == 20

DirectStep == 10

\* the dict built from one result (all seven keys are set)
AcquiredPub(t, s) ==
    MkPub(t, <<"J"," ","S","m","i","t","h">>, <<"2","0","2","0">>,
          <<"N","a","t","u","r","e">>, AbsentVal, s, 0, <<>>)

\* A result of the API is one of: a well-formed result; a result whose snippet
\* is a JSON number; a result whose title is null (the dict is appended, then
\* the slice pub['title'][:55] raises); a result whose authors entry is no
\* dict (a.get raises before the dict is built).
SerpResultKinds == {"good", "num_snippet", "null_title", "malformed"}

SerpPubOf(kind) ==
    CASE kind = "good" -> AcquiredPub(<<"D","e","e","p">>, <<>>)
      [] kind = "num_snippet" -> AcquiredPub(<<"D","e","e","p">>, NumVal)
      [] kind = "null_title" -> AcquiredPub(NoneVal, <<>>)
      [] OTHER -> AcquiredPub(<<>>, <<>>)

\* A scraped result parses to text only: a result with a title, or a result
\* whose title text is empty.
DirectResultKinds == {"good", "no_title"}

DirectPubOf(kind) ==
    CASE kind = "good" -> AcquiredPub(<<"D","e","e","p","_","1">>, <<"s","{","x","}">>)
      [] OTHER -> AcquiredPub(<<>>, <<>>)

\* the non-empty pages a source can answer with
Pages(kinds) == UNION { [1..n -> kinds] : n \in 1..MaxPageLen }

\* the records the results of a page give, each kept with the offset the page
\* was requested at and its position on the page
SerpTagged(offset, results) ==
    [k \in 1..Len(results) |-> [src |-> offset, pos |-> k, pub |-> SerpPubOf(results[k])]]

DirectTagged(offset, results) ==
    [k \in 1..Len(results) |-> [src |-> offset, pos |-> k, pub |-> DirectPubOf(results[k])]]

Min(a, b) == IF a <= b THEN a ELSE b

\* Truncate with a fault seeded: the list is returned whole.
TruncateNothing(list, n) == list

\* list[:n], n positive
Truncate(list, n) == SubSeq(list, 1, Min(Len(list), n))

-----------------------------------------------------------------------------
(* generate_bibtex_file: choice of the strategy *)

NoFile == <<"<no file>">>

OldFile == <<"<an earlier run's content>">>

MaxResultsInputs == (1..MaxSmallResults) \cup {SerpStep + 1}

Init ==
    /\ pc = "select"
    /\ api_key \in BOOLEAN
    /\ max_results \in MaxResultsInputs
    /\ start = 0
    /\ params_start = 0
    /\ all_publications = <<>>
    /\ event = "none"
    /\ publications = <<>>
    /\ i = 0
    /\ bibtex_entries = <<>>
    /\ file0 \in {NoFile, OldFile}
    /\ out_file = file0
    /\ writes = 0
    /\ RenderIdle

SelectStrategy ==
    /\ pc = "select"
    /\ pc' = IF api_key THEN "serp_while" ELSE "direct_while"
    /\ all_publications' = <<>>
    /\ start' = 0
    /\ UNCHANGED <<api_key, max_results, params_start, event, publications, i,
                   bibtex_entries, out_file, file0, writes>>
    /\ UNCHANGED renderVars

-----------------------------------------------------------------------------
(* search_scholar_serpapi *)

\* what a step of a retrieval loop leaves alone
LoopFrame == /\ UNCHANGED <<api_key, max_results, publications, i, bibtex_entries,
                            out_file, file0, writes>>
             /\ UNCHANGED renderVars

SerpWhile ==
    /\ pc = "serp_while"
    /\ \/ /\ Len(all_publications) < max_results
          /\ params_start' = start
          /\ pc' = "serp_request"
       \/ /\ ~(Len(all_publications) < max_results)
          /\ pc' = "serp_return"
          /\ UNCHANGED params_start
    /\ UNCHANGED <<start, all_publications, event>>
    /\ LoopFrame

\* `break` out of the retrieval loop with nothing appended
Break(what, to) ==
    /\ event' = what
    /\ pc' = to
    /\ UNCHANGED <<start, params_start, all_publications>>
    /\ LoopFrame

\* Serp401 with a fault seeded: the rejected request is sent again.
Serp401Retry ==
    /\ pc = "serp_request"
    /\ event' = "unauthorized"
    /\ pc' = "serp_while"
    /\ UNCHANGED <<start, params_start, all_publications>>
    /\ LoopFrame

Serp401 ==
    /\ pc = "serp_request"
    /\ Break("unauthorized", "serp_return")

SerpHttpError ==
    /\ pc = "serp_request"
    /\ Break("http_error", "serp_return")

SerpErrorField ==
    /\ pc = "serp_request"
    /\ Break("api_error", "serp_return")

SerpNoResults ==
    /\ pc = "serp_request"
    /\ Break("no_results", "serp_return")

SerpException ==
    /\ pc = "serp_request"
    /\ Break("exception", "serp_return")

\* SerpTimeout with a fault seeded: the offset moves on, as it does when scraping.
SerpTimeoutAdvance ==
    /\ pc = "serp_request"
    /\ event' = "timeout"
    /\ start' = start + SerpStep
    /\ pc' = "serp_while"
    /\ UNCHANGED <<params_start, all_publications>>
    /\ LoopFrame

SerpTimeout ==
    /\ pc = "serp_request"
    /\ event' = "timeout"
    /\ pc' = "serp_while"
    /\ UNCHANGED <<start, params_start, all_publications>>
    /\ LoopFrame

\* the values of search_information.total_results (0 also when it is absent)
TotalResultsInputs == { k * SerpStep + d : k \in 0..MaxTotalPages, d \in {0, 1} }

\* the first result of the page whose handling raises, 0 when none does
FirstFault(results) ==
    IF \E k \in 1..Len(results) : results[k] \in {"null_title", "malformed"}
    THEN CHOOSE k \in 1..Len(results) :
            /\ results[k] \in {"null_title", "malformed"}
            /\ \A j \in 1..(k - 1) : results[j] \notin {"null_title", "malformed"}
    ELSE 0

SerpPage ==
    /\ pc = "serp_request"
    /\ \E results \in Pages(SerpResultKinds), total_results \in TotalResultsInputs :
          LET f == FirstFault(results)
              tagged == SerpTagged(params_start, results)
          IN  IF f = 0
              THEN /\ all_publications' = all_publications \o tagged
                   /\ start' = start + SerpStep
                   /\ event' = "page"
                   /\ pc' = IF start' >= total_results \/ start' >= max_results
                            THEN "serp_return" ELSE "serp_while"
              ELSE /\ all_publications' =
                          all_publications
                          \o SubSeq(tagged, 1, IF results[f] = "null_title" THEN f ELSE f - 1)
                   /\ event' = "bad_result"
                   /\ pc' = "serp_return"
                   /\ UNCHANGED start
    /\ UNCHANGED params_start
    /\ LoopFrame

\* `return all_publications[:max_results]`: the locals of the loop (start, params,
\* response) end with the call; all_publications is kept beside the list returned.
SerpReturn ==
    /\ pc = "serp_return"
    /\ publications' = Truncate(all_publications, max_results)
    /\ pc' = "check_empty"
    /\ start' = 0
    /\ params_start' = 0
    /\ event' = "none"
    /\ UNCHANGED <<api_key, max_results, all_publications, i, bibtex_entries, out_file,
                   file0, writes>>
    /\ UNCHANGED renderVars

-----------------------------------------------------------------------------
(* search_scholar_direct *)

\* The scraped source holds data at the offsets below DataEnd.  The offset is
\* counted up to DataEnd only: every offset from there on addresses a page
\* past the data and is answered alike.
DataEnd == DirectStep * MaxDirectPages

NextDirectStart(s) == IF s >= DataEnd THEN DataEnd ELSE s + DirectStep

DirectWhile ==
    /\ pc = "direct_while"
    /\ \/ /\ Len(all_publications) < max_results
          /\ params_start' = start
          /\ pc' = "direct_request"
       \/ /\ ~(Len(all_publications) < max_results)
          /\ pc' = "direct_return"
          /\ UNCHANGED params_start
    /\ UNCHANGED <<start, all_publications, event>>
    /\ LoopFrame

Direct429 ==
    /\ pc = "direct_request"
    /\ Break("rate_limited", "direct_return")

DirectHttpError ==
    /\ pc = "direct_request"
    /\ Break("http_error", "direct_return")

DirectCaptcha ==
    /\ pc = "direct_request"
    /\ Break("captcha", "direct_return")

DirectNoResults ==
    /\ pc = "direct_request"
    /\ Break("no_results", "direct_return")

DirectException ==
    /\ pc = "direct_request"
    /\ Break("exception", "direct_return")

DirectTimeout ==
    /\ pc = "direct_request"
    /\ event' = "timeout"
    /\ start' = NextDirectStart(start)
    /\ pc' = "direct_while"
    /\ UNCHANGED <<params_start, all_publications>>
    /\ LoopFrame

HasTitle(rec) == PubTitle(rec.pub) # <<>>

DirectPage ==
    /\ pc = "direct_request"
    /\ params_start < DataEnd
    /\ \E results \in Pages(DirectResultKinds) :
          all_publications' =
              all_publications \o SelectSeq(DirectTagged(params_start, results), HasTitle)
    /\ start' = NextDirectStart(start)
    /\ event' = "page"
    /\ pc' = "direct_while"
    /\ UNCHANGED params_start
    /\ LoopFrame

DirectReturn ==
    /\ pc = "direct_return"
    /\ publications' = Truncate(all_publications, max_results)
    /\ pc' = "check_empty"
    /\ start' = 0
    /\ params_start' = 0
    /\ event' = "none"
    /\ UNCHANGED <<api_key, max_results, all_publications, i, bibtex_entries, out_file,
                   file0, writes>>
    /\ UNCHANGED renderVars

-----------------------------------------------------------------------------
(* generate_bibtex_file: conversion and output *)

AcquireFrame == /\ UNCHANGED <<api_key, max_results, start, params_start, all_publications,
                               event, publications, file0>>
                /\ UNCHANGED renderVars

\* CheckEmpty with a fault seeded: the empty result is not returned on.
CheckEmptyNoReturn ==
    /\ pc = "check_empty"
    /\ pc' = "convert"
    /\ i' = 0
    /\ bibtex_entries' = <<>>
    /\ UNCHANGED <<out_file, writes>>
    /\ AcquireFrame

CheckEmpty ==
    /\ pc = "check_empty"
    /\ \/ /\ publications = <<>>
          /\ pc' = "done"
          /\ UNCHANGED <<i, bibtex_entries>>
       \/ /\ publications # <<>>
          /\ pc' = "convert"
          /\ i' = 0
          /\ bibtex_entries' = <<>>
    /\ UNCHANGED <<out_file, writes>>
    /\ AcquireFrame

\* Convert with a fault seeded: a record that fails to convert ends the loop.
ConvertAbortOnFailure ==
    /\ pc = "convert"
    /\ i < Len(publications)
    /\ LET pub == publications[i + 1].pub IN
          \/ /\ ~Raises(pub)
             /\ bibtex_entries' = Append(bibtex_entries, publication_to_bibtex(pub, i))
             /\ i' = i + 1
          \/ /\ Raises(pub)
             /\ i' = Len(publications)
             /\ UNCHANGED bibtex_entries
    /\ UNCHANGED <<pc, out_file, writes>>
    /\ AcquireFrame

\* one round of `for i, pub in enumerate(publications)`
Convert ==
    /\ pc = "convert"
    /\ i < Len(publications)
    /\ LET pub == publications[i + 1].pub IN
          \/ /\ ~Raises(pub)
             /\ bibtex_entries' = Append(bibtex_entries, publication_to_bibtex(pub, i))
          \/ /\ Raises(pub)
             /\ UNCHANGED bibtex_entries
    /\ i' = i + 1
    /\ UNCHANGED <<pc, out_file, writes>>
    /\ AcquireFrame

\* the text written to output_file
FileText(entries) ==
    <<"% BibTeX file generated from Google Scholar\n", "% Author: ", "<author_name>", "\n",
      "% Total entries: ">> \o IntToStr(Len(entries))
    \o <<"\n", "% Generated by: scholar_to_bibtex.py\n\n">>
    \o Join("\n\n", entries)

WriteFile ==
    /\ pc = "convert"
    /\ i = Len(publications)
    /\ out_file' = FileText(bibtex_entries)
    /\ writes' = writes + 1
    /\ pc' = "done"
    /\ UNCHANGED <<i, bibtex_entries>>
    /\ AcquireFrame

Next ==
    \/ SelectStrategy
    \/ SerpWhile \/ Serp401 \/ SerpHttpError \/ SerpErrorField \/ SerpNoResults
    \/ SerpException \/ SerpTimeout \/ SerpPage \/ SerpReturn
    \/ DirectWhile \/ Direct429 \/ DirectHttpError \/ DirectCaptcha \/ DirectNoResults
    \/ DirectException \/ DirectTimeout \/ DirectPage \/ DirectReturn
    \/ CheckEmpty \/ Convert \/ WriteFile

Spec == Init /\ [][Next]_vars

\* The program always takes its next step; the source answers as it likes.
FairSpec == Init /\ [][Next]_vars /\ WF_vars(Next)

-----------------------------------------------------------------------------
(* Reading a rendered entry back *)

RECURSIVE TextLines(_)
\* the lines of a text, cut at its "\n" pieces
TextLines(text) ==
    IF \E k \in 1..Len(text) : text[k] = "\n"
    THEN LET n == CHOOSE k \in 1..Len(text) : text[k] = "\n" /\ \A j \in 1..(k - 1) : text[j] # "\n"
         IN  <<SubSeq(text, 1, n - 1)>> \o TextLines(SubSeq(text, n + 1, Len(text)))
    ELSE <<text>>

\* the field lines of an entry: all but the "@kind{key," line and the closing "}"
FieldLines(text) == LET ls == TextLines(text) IN SubSeq(ls, 2, Len(ls) - 1)

\* the entry kind written after "@"
KindOf(text) == text[2]

FieldOpeners == [title |-> "  title = {", author |-> "  author = {", year |-> "  year = {",
                 booktitle |-> "  booktitle = {", journal |-> "  journal = {",
                 abstract |-> "  abstract = {", note |-> "  note = {", url |-> "  url = {"]

\* the name of the field a line sets, "?" when the line sets none
FieldName(line) ==
    IF \E f \in DOMAIN FieldOpeners : line # <<>> /\ line[1] = FieldOpeners[f]
    THEN CHOOSE f \in DOMAIN FieldOpeners : line[1] = FieldOpeners[f]
    ELSE "?"

FieldNames(text) == LET fl == FieldLines(text) IN [k \in 1..Len(fl) |-> FieldName(fl[k])]

\* the value a field line embeds between its opener and its "},"
FieldValue(line) == SubSeq(line, 2, Len(line) - 1)

\* venue holds word at position k, compared without regard to case
MatchesAt(venue, word, k) ==
    /\ k + Len(word) - 1 <= Len(venue)
    /\ \A j \in 1..Len(word) : LowerChar(venue[k + j - 1]) = word[j]

HasConferenceWord(venue) ==
    \E k \in 1..Len(venue) :
        \/ MatchesAt(venue, <<"c","o","n","f","e","r","e","n","c","e">>, k)
        \/ MatchesAt(venue, <<"p","r","o","c","e","e","d","i","n","g","s">>, k)
        \/ MatchesAt(venue, <<"s","y","m","p","o","s","i","u","m">>, k)
        \/ MatchesAt(venue, <<"w","o","r","k","s","h","o","p">>, k)

HasJournalWord(venue) ==
    \E k \in 1..Len(venue) :
        \/ MatchesAt(venue, <<"j","o","u","r","n","a","l">>, k)
        \/ MatchesAt(venue, <<"t","r","a","n","s","a","c","t","i","o","n","s">>, k)
        \/ MatchesAt(venue, <<"l","e","t","t","e","r","s">>, k)

-----------------------------------------------------------------------------
(* Claims about the renderer, checked under RenderSpec *)

\* C5: in every entry publication_to_bibtex renders, no embedded field value
\* (title, author, year, booktitle/journal, abstract, url) holds a '{' or '}'.
C5_NoBraceInAnyField ==
    r_pc = "rendered" =>
        \A k \in 1..Len(FieldLines(r_out)) :
            \A c \in Range(FieldValue(FieldLines(r_out)[k])) : ~IsBrace(c)

\* C8: the entry kind is misc for an empty venue, inproceedings for a venue that
\* holds conference, proceedings, symposium or workshop in any case (also next
\* to journal, transactions or letters), and article for any other venue.
C8_EntryKind ==
    (r_pc = "rendered" /\ IsStr(PubVenue(r_pub))) =>
        LET venue == PubVenue(r_pub) IN
        KindOf(r_out) = IF venue = <<>> THEN "misc"
                        ELSE IF HasConferenceWord(venue) THEN "inproceedings"
                        ELSE "article"

\* C8 witness: a venue holding a conference word and a journal word was rendered.
C8_Witness ==
    /\ r_pc = "rendered"
    /\ IsStr(PubVenue(r_pub))
    /\ HasConferenceWord(PubVenue(r_pub))
    /\ HasJournalWord(PubVenue(r_pub))
    /\ KindOf(r_out) = "inproceedings"

\* C9: the field lines are title, author, year, then booktitle (inproceedings)
\* or journal when the venue is non-empty, abstract when the snippet is
\* non-empty, note when citations is non-zero, url when the link is non-empty,
\* in this order, and each ends in "},".
C9_FieldOrder ==
    r_pc = "rendered" =>
        /\ FieldNames(r_out) =
              <<"title", "author", "year">>
              \o (IF PubVenue(r_pub) \in {<<>>, NoneVal} THEN <<>>
                  ELSE IF KindOf(r_out) = "inproceedings" THEN <<"booktitle">>
                  ELSE <<"journal">>)
              \o (IF PubSnippet(r_pub) \in {<<>>, NoneVal} THEN <<>> ELSE <<"abstract">>)
              \o (IF PubCitations(r_pub) = 0 THEN <<>> ELSE <<"note">>)
              \o (IF PubLink(r_pub) = <<>> THEN <<>> ELSE <<"url">>)
        /\ \A k \in 1..Len(FieldLines(r_out)) :
              LET line == FieldLines(r_out)[k] IN line[Len(line)] = "},"

\* C9 witness: an entry with all seven field lines was rendered.
C9_Witness ==
    /\ r_pc = "rendered"
    /\ FieldNames(r_out) = <<"title", "author", "year", "journal", "abstract", "note", "url">>

-----------------------------------------------------------------------------
(* Claims about generate_bibtex_file and the strategies, checked under Spec *)

\* the citation key of an entry: what stands between "@kind{" and the ","
KeyOf(text) == LET h == TextLines(text)[1] IN SubSeq(h, 4, Len(h) - 1)

Converts(list, k) == ~Raises(list[k].pub)

\* C1: within one run the keys of the entries written are pairwise distinct,
\* and so are the keys built for any two input positions that convert, also
\* for records alike in title, year and author and after skipped records.
C1_KeysDistinct ==
    /\ \A a, b \in 1..Len(bibtex_entries) :
          a # b => KeyOf(bibtex_entries[a]) # KeyOf(bibtex_entries[b])
    /\ \A a, b \in 1..Len(publications) :
          (a # b /\ Converts(publications, a) /\ Converts(publications, b)) =>
              KeyOf(publication_to_bibtex(publications[a].pub, a - 1))
                  # KeyOf(publication_to_bibtex(publications[b].pub, b - 1))

\* C1 witness: a run that skipped its first record and wrote two entries for
\* records with the same title, year and authors.
C1_Witness ==
    /\ pc = "done"
    /\ writes = 1
    /\ Len(publications) >= 3
    /\ ~Converts(publications, 1)
    /\ Len(bibtex_entries) >= 2
    /\ publications[2].pub = publications[3].pub

AcquisitionFailures == {"timeout", "http_error", "unauthorized", "rate_limited", "captcha"}

EndingFailures == AcquisitionFailures \ {"timeout"}

\* C2 as stated: every acquisition failure, a timeout included, ends the
\* retrieval loop with the collected records unchanged.
C2_EveryFailureEndsLoop ==
    [][ (pc \in {"serp_request", "direct_request"} /\ event' \in AcquisitionFailures) =>
            /\ pc' \in {"serp_return", "direct_return"}
            /\ all_publications' = all_publications ]_vars

\* C2 amended: a non-success status, a 401, a 429 or a CAPTCHA page ends the
\* retrieval loop with the collected records unchanged, and the strategy then
\* returns exactly these records to generate_bibtex_file; a timeout leaves the
\* records unchanged and the loop goes on to its next request.
C2_FailureHandling ==
    [][ /\ (pc = "serp_request" /\ event' \in EndingFailures) =>
               (pc' = "serp_return" /\ all_publications' = all_publications)
        /\ (pc = "direct_request" /\ event' \in EndingFailures) =>
               (pc' = "direct_return" /\ all_publications' = all_publications)
        /\ (pc = "serp_request" /\ event' = "timeout") =>
               (pc' = "serp_while" /\ all_publications' = all_publications)
        /\ (pc = "direct_request" /\ event' = "timeout") =>
               (pc' = "direct_while" /\ all_publications' = all_publications)
        /\ (pc \in {"serp_return", "direct_return"} /\ event \in EndingFailures) =>
               (pc' = "check_empty" /\ publications' = all_publications) ]_vars

\* C2 witness: a strategy that had collected records was blocked or rejected
\* and left its loop to return them.
C2_Witness ==
    /\ pc \in {"serp_return", "direct_return"}
    /\ event \in EndingFailures
    /\ all_publications # <<>>

\* C3: whatever the source answers, the retrieval loop exits and the run ends.
C3_RunEnds == <>(pc = "done")

InDiscoveryOrder(list) ==
    \A a, b \in 1..Len(list) :
        a < b => \/ list[a].src < list[b].src
                 \/ list[a].src = list[b].src /\ list[a].pos < list[b].pos

\* C4: the list a strategy returns is no longer than max_results and is a
\* prefix of the records collected, which stand in page order and, within a
\* page, in the order of the page.
C4_ReturnedPrefix ==
    /\ InDiscoveryOrder(all_publications)
    /\ pc \in {"check_empty", "convert", "done"} =>
          /\ Len(publications) <= max_results
          /\ Len(publications) <= Len(all_publications)
          /\ publications = SubSeq(all_publications, 1, Len(publications))

\* C4 witness: records of two pages were collected, more than max_results, and
\* the strategy returned.
C4_Witness ==
    /\ pc = "check_empty"
    /\ Len(all_publications) > max_results
    /\ Len(publications) = max_results
    /\ \E a, b \in 1..Len(publications) : publications[a].src # publications[b].src

RECURSIVE Converted(_, _)
\* the entries of the records among the first n that convert, in input order,
\* each rendered with its own input position
Converted(list, n) ==
    IF n = 0 THEN <<>>
    ELSE Converted(list, n - 1)
         \o (IF Converts(list, n) THEN <<publication_to_bibtex(list[n].pub, n - 1)>> ELSE <<>>)

\* C6: a record that fails to convert is skipped and nothing else: after i
\* rounds the entries are the conversions of the records among the first i that
\* convert, and the file holds the conversions of all that convert.
C6_FailureIsolated ==
    /\ pc = "convert" => bibtex_entries = Converted(publications, i)
    /\ (pc = "done" /\ publications # <<>>) =>
          /\ i = Len(publications)
          /\ bibtex_entries = Converted(publications, Len(publications))
          /\ out_file = FileText(Converted(publications, Len(publications)))

\* C6 witness: a run ended in which a record failed to convert and a later
\* record was written.
C6_Witness ==
    /\ pc = "done"
    /\ \E a, b \in 1..Len(publications) :
          a < b /\ ~Converts(publications, a) /\ Converts(publications, b)
    /\ bibtex_entries # <<>>

\* C7: the file is written iff the strategy returned a record: with no record
\* the run ends with the file untouched, otherwise the file is opened once and
\* holds the header and the entries only.
C7_WrittenIffRecords ==
    /\ writes <= 1
    /\ pc # "done" => (writes = 0 /\ out_file = file0)
    /\ pc = "done" =>
          IF publications = <<>>
          THEN writes = 0 /\ out_file = file0
          ELSE writes = 1 /\ out_file = FileText(bibtex_entries)

\* C7 witness: every record was skipped and the file of an earlier run was
\* overwritten all the same.
C7_Witness ==
    /\ pc = "done"
    /\ publications # <<>>
    /\ bibtex_entries = <<>>
    /\ file0 = OldFile
    /\ writes = 1

\* the records of list that came from the page at offset
FromPage(list, offset) == SelectSeq(list, LAMBDA rec : rec.src = offset)

\* C10, the steps: a timeout leaves start and the records unchanged and leads
\* back to the loop head, a request carries the current start, and start moves
\* only by 20 and only with a whole non-empty page appended.
C10_Steps ==
    /\ (pc = "serp_request" /\ event' = "timeout") =>
          (start' = start /\ all_publications' = all_publications /\ pc' = "serp_while")
    /\ (pc = "serp_while" /\ pc' = "serp_request") => params_start' = start
    /\ (pc = "serp_request" /\ start' # start) =>
          /\ start' = start + SerpStep
          /\ event' = "page"
          /\ \E n \in 1..MaxPageLen :
                all_publications' =
                    all_publications
                    \o [k \in 1..n |-> [src |-> start, pos |-> k,
                                        pub |-> all_publications'[Len(all_publications) + k].pub]]

\* C10, the states: every offset below start has its page among the records,
\* no record is from beyond start and no record stands twice.
C10_Pages ==
    pc \in {"serp_while", "serp_request", "serp_return"} =>
        /\ \A k \in 1..Len(all_publications) : all_publications[k].src <= start
        /\ \A p \in 0..(start - 1) : p % SerpStep = 0 => FromPage(all_publications, p) # <<>>
        /\ InDiscoveryOrder(all_publications)

\* C10: in search_scholar_serpapi a timeout changes neither start nor the
\* records and the same offset is requested again; start advances by 20 only
\* after a non-empty page was appended whole; no page is skipped or appended twice.
C10_TimeoutRetriesSameOffset == []C10_Pages /\ [][C10_Steps]_vars

\* C10 witness: a request for the second page timed out.
C10_Witness ==
    /\ api_key
    /\ pc = "serp_while"
    /\ event = "timeout"
    /\ start = SerpStep
    /\ all_publications # <<>>

====
